---- MODULE Spec2Model ----
(***************************************************************************)
(* raw2exr: the conversion pipeline of src/src/main.rs as a state machine. *)
(*                                                                         *)
(* One run of main(): decode the RAW file, demosaic and normalise every    *)
(* pixel in one raster scan, derive the four chromaticities by probing the *)
(* camera matrix, compute the display window from the crop margins, write  *)
(* the OpenEXR file.                                                       *)
(*                                                                         *)
(* f32 quantities are modelled as exact extended rationals (a fraction in  *)
(* lowest terms, NaN or infinity); u16 -> f32 conversions are exact.       *)
(* usize keeps a width, scaled down to UsizeBits bits so that wrap-around  *)
(* is reachable within the explored inputs.                                *)
(***************************************************************************)
EXTENDS Integers, Sequences, FiniteSets, TLC

\* ------------------------------------------------------------------ bounds
MaxWidth == 3
MaxHeight == 3
MaxSample == 2
MaxWhite == 2
MaxCrop == 2
UsizeBits == 4

\* ------------------------------------------------------- machine integers
RECURSIVE Pow2(_)
Pow2(n) == IF n = 0 THEN 1 ELSE 2 * Pow2(n - 1)

UsizeMod == Pow2(UsizeBits)

\* A usize value together with whether computing it overflowed.
U(v) == [v |-> v, ovf |-> FALSE]

\* usize - usize : wraps modulo the word, and records the underflow (a panic
\* in a build with overflow checks).
USub(a, b) == [v |-> (a.v - b + UsizeMod) % UsizeMod, ovf |-> a.ovf \/ a.v < b]

\* usize + usize
UAdd(a, b) == [v |-> (a.v + b) % UsizeMod, ovf |-> a.ovf \/ a.v + b >= UsizeMod]

\* i32::MAX
I32Max == 2147483647

\* usize as i32 : keeps the low 32 bits, read as two's complement; exact up
\* to i32::MAX, negative from there to u32::MAX.
AsI32(n) == IF n <= I32Max THEN n ELSE ((n - I32Max) - 1) - I32Max - 1

\* ------------------------------------------------------------------ f32
Abs(n) == IF n < 0 THEN -n ELSE n

RECURSIVE Gcd(_, _)
Gcd(a, b) == IF b = 0 THEN a ELSE Gcd(b, a % b)

NaN == [k |-> "nan", n |-> 0, d |-> 0]
Inf == [k |-> "inf", n |-> 1, d |-> 0]

\* The fraction n/d (d # 0) in lowest terms with a positive denominator.
Num(n, d) ==
    LET g == Gcd(Abs(n), Abs(d))
        s == IF d < 0 THEN -1 ELSE 1
    IN  [k |-> "num", n |-> s * (n \div g), d |-> s * (d \div g)]

\* integer as f32
F(n) == Num(n, 1)

\* f32 + f32 (finite operands are all the sums of the scan need)
FAdd(a, b) ==
    IF a.k = "nan" \/ b.k = "nan" THEN NaN
    ELSE IF a.k = "inf" \/ b.k = "inf" THEN Inf
    ELSE Num(a.n * b.d + b.n * a.d, a.d * b.d)

\* f32 / f32 by IEEE 754 rules: 0/0 is NaN, x/0 is infinite.
FDiv(a, b) ==
    IF a.k = "nan" \/ b.k = "nan" THEN NaN
    ELSE IF a.k = "inf" THEN (IF b.k = "inf" THEN NaN ELSE Inf)
    ELSE IF b.k = "inf" THEN F(0)
    ELSE IF b.n = 0 THEN (IF a.n = 0 THEN NaN ELSE Inf)
    ELSE Num(a.n * b.d, a.d * b.n)

\* ------------------------------------------------------------ CFA oracle
\* image.cfa.color_at(row, col): the filter colour of a sensor position, the
\* CFA tile repeated over the sensor.
color_at(cfa, row, col) ==
    cfa.pattern[(row % cfa.height) + 1][(col % cfa.width) + 1]

\* ------------------------------------------------- the neighbour sampler
\* adjacent_pixels[i] is None or Some((data[idx] as f32, (x, y))); a slot
\* keeps the flat index idx the sample is read at and the coordinate pair.
None == [some |-> FALSE, idx |-> U(0), x |-> U(0), y |-> U(0)]
Some(idx, x, y) == [some |-> TRUE, idx |-> idx, x |-> x, y |-> y]

\* image.width - 1 and image.height - 1, as the guards compute them
WidthM1(img) == USub(U(img.width), 1)
HeightM1(img) == USub(U(img.height), 1)

\* TopLeft guarded by "or" in place of "and".
TopLeftEitherEdge(img, index, x, y) ==
    IF (x # 0) \/ (y # 0)
    THEN Some(USub(USub(U(index), img.width), 1), USub(U(x), 1), USub(U(y), 1))
    ELSE None

TopLeft(img, index, x, y) ==
    IF (x # 0) /\ (y # 0)
    THEN Some(USub(USub(U(index), img.width), 1), USub(U(x), 1), USub(U(y), 1))
    ELSE None

TopMiddle(img, index, x, y) ==
    IF y # 0
    THEN Some(USub(U(index), img.width), U(x), USub(U(y), 1))
    ELSE None

TopRight(img, index, x, y) ==
    IF (x # WidthM1(img).v) /\ (y # 0)
    THEN Some(UAdd(USub(U(index), img.width), 1), UAdd(U(x), 1), USub(U(y), 1))
    ELSE None

Left(img, index, x, y) ==
    IF x # 0
    THEN Some(USub(U(index), 1), USub(U(x), 1), U(y))
    ELSE None

\* Right with the last column tested against the width (an off-by-one).
RightOffByOne(img, index, x, y) ==
    IF x # img.width
    THEN Some(UAdd(U(index), 1), UAdd(U(x), 1), U(y))
    ELSE None

Right(img, index, x, y) ==
    IF x # WidthM1(img).v
    THEN Some(UAdd(U(index), 1), UAdd(U(x), 1), U(y))
    ELSE None

\* BottomLeft carrying the coordinate of the pixel below (a copied line).
BottomLeftCopied(img, index, x, y) ==
    IF (x # 0) /\ (y # HeightM1(img).v)
    THEN Some(USub(UAdd(U(index), img.width), 1), U(x), UAdd(U(y), 1))
    ELSE None

BottomLeft(img, index, x, y) ==
    IF (x # 0) /\ (y # HeightM1(img).v)
    THEN Some(USub(UAdd(U(index), img.width), 1), USub(U(x), 1), UAdd(U(y), 1))
    ELSE None

BottomMiddle(img, index, x, y) ==
    IF y # HeightM1(img).v
    THEN Some(UAdd(U(index), img.width), U(x), UAdd(U(y), 1))
    ELSE None

\* BottomRight under BottomLeft's guard (a copied condition).
BottomRightLeftGuard(img, index, x, y) ==
    IF (x # 0) /\ (y # HeightM1(img).v)
    THEN Some(UAdd(UAdd(U(index), img.width), 1), UAdd(U(x), 1), UAdd(U(y), 1))
    ELSE None

BottomRight(img, index, x, y) ==
    IF (x # WidthM1(img).v) /\ (y # HeightM1(img).v)
    THEN Some(UAdd(UAdd(U(index), img.width), 1), UAdd(U(x), 1), UAdd(U(y), 1))
    ELSE None

\* The array [None; 8] after the eight checks (slot i of the code is i + 1).
adjacent_pixels(img, index, x, y) ==
    << TopLeft(img, index, x, y), TopMiddle(img, index, x, y),
       TopRight(img, index, x, y), Left(img, index, x, y),
       Right(img, index, x, y), BottomLeft(img, index, x, y),
       BottomMiddle(img, index, x, y), BottomRight(img, index, x, y) >>

\* Whether any usize operation of the eight checks overflowed.
AdjacentOverflow(img, adj) ==
    \/ WidthM1(img).ovf
    \/ HeightM1(img).ovf
    \/ \E i \in 1..8 : adj[i].some /\ (adj[i].idx.ovf \/ adj[i].x.ovf \/ adj[i].y.ovf)

\* The flat indices data[...] is read at while loading the neighbours.
AdjacentReads(adj) == { adj[i].idx.v : i \in { j \in 1..8 : adj[j].some } }

\* --------------------------------------------------------- the demosaicer
NoSums ==
    [ red_sum |-> F(0), green_sum |-> F(0), blue_sum |-> F(0),
      red_count |-> 0, green_count |-> 0, blue_count |-> 0, panic |-> FALSE ]

\* One iteration of the loop over the existing neighbours: the match on the
\* neighbour's filter colour.
Accumulate(acc, color, value) ==
    CASE color = 0 -> [acc EXCEPT !.red_sum = FAdd(@, value), !.red_count = @ + 1]
      [] color = 1 -> [acc EXCEPT !.green_sum = FAdd(@, value), !.green_count = @ + 1]
      [] color = 2 -> [acc EXCEPT !.blue_sum = FAdd(@, value), !.blue_count = @ + 1]
      [] OTHER -> [acc EXCEPT !.panic = TRUE]

\* for (value, (x, y)) in adjacent_pixels.into_iter().flatten() { ... }
RECURSIVE SumLoop(_, _, _, _)
SumLoop(img, adj, i, acc) ==
    IF i > 8 \/ acc.panic THEN acc
    ELSE IF ~ adj[i].some THEN SumLoop(img, adj, i + 1, acc)
    ELSE SumLoop(img, adj, i + 1,
                 Accumulate(acc, color_at(img.cfa, adj[i].y.v, adj[i].x.v),
                            F(img.data[adj[i].idx.v])))

red_max(img) == F(img.whitelevels[1])
green_max(img) == F(img.whitelevels[2])
blue_max(img) == F(img.whitelevels[3])

\* red_avg without the division by the count.
red_avg_sum_only(img, acc) == FDiv(acc.red_sum, red_max(img))

\* green_avg normalised by red's white level.
green_avg_red_max(img, acc) == FDiv(FDiv(acc.green_sum, F(acc.green_count)), red_max(img))

red_avg(img, acc) == FDiv(FDiv(acc.red_sum, F(acc.red_count)), red_max(img))
green_avg(img, acc) == FDiv(FDiv(acc.green_sum, F(acc.green_count)), green_max(img))
blue_avg(img, acc) == FDiv(FDiv(acc.blue_sum, F(acc.blue_count)), blue_max(img))

\* "Use direct component": the match on the pixel's own filter colour.
SelectOutputs(img, acc, color, own) ==
    CASE color = 0 ->
           [panic |-> FALSE, red |-> FDiv(own, red_max(img)),
            green |-> green_avg(img, acc), blue |-> blue_avg(img, acc)]
      [] color = 1 ->
           [panic |-> FALSE, red |-> red_avg(img, acc),
            green |-> FDiv(own, green_max(img)), blue |-> blue_avg(img, acc)]
      [] color = 2 ->
           [panic |-> FALSE, red |-> red_avg(img, acc),
            green |-> green_avg(img, acc), blue |-> FDiv(own, blue_max(img))]
      [] OTHER -> [panic |-> TRUE, red |-> NaN, green |-> NaN, blue |-> NaN]

\* The (row, col) pairs the CFA oracle is asked about for one pixel.
CfaQueries(adj, x, y) ==
    { <<adj[i].y.v, adj[i].x.v>> : i \in { j \in 1..8 : adj[j].some } } \cup { <<y, x>> }

\* The body of the raster loop for one item (index, (y, x)) of the
\* enumeration: what it reads, whether it panics, and the triple it pushes.
\* `checks` is whether the build traps integer overflow.
LoopBody(img, index, x, y, checks) ==
    LET adj == adjacent_pixels(img, index, x, y)
        ovf == AdjacentOverflow(img, adj)
        reads == AdjacentReads(adj) \cup {index}
        oob == \E r \in reads : r \notin DOMAIN img.data
        base == [ index |-> index, x |-> x, y |-> y, adj |-> adj, ovf |-> ovf,
                  reads |-> reads, queries |-> CfaQueries(adj, x, y),
                  acc |-> NoSums, fatal |-> "none",
                  red |-> NaN, green |-> NaN, blue |-> NaN ]
    IN  IF (ovf /\ checks) \/ oob THEN [base EXCEPT !.fatal = "bounds"]
        ELSE LET acc == SumLoop(img, adj, 1, NoSums)
                 out == SelectOutputs(img, acc, color_at(img.cfa, y, x),
                                      F(img.data[index]))
             IN  IF acc.panic \/ out.panic
                 THEN [base EXCEPT !.acc = acc, !.fatal = "cfa"]
                 ELSE [base EXCEPT !.acc = acc, !.red = out.red,
                                   !.green = out.green, !.blue = out.blue]

\* ---------------------------------------------- the chromaticity probes
FMul(a, b) ==
    IF a.k = "nan" \/ b.k = "nan" THEN NaN
    ELSE IF a.k = "inf" \/ b.k = "inf" THEN (IF a.n = 0 \/ b.n = 0 THEN NaN ELSE Inf)
    ELSE Num(a.n * b.n, a.d * b.d)

\* Matrix3x3f::new(m[0][0], ..., m[2][2]): the first three columns of the
\* three rows of image.cam_to_xyz(); the fourth column is thrown out.
cam_to_xyz(img) ==
    [r \in 1..3 |-> [c \in 1..3 |-> F(img.m[r][c])]]

\* cam_to_xyz * point
MatVec(m, p) ==
    [r \in 1..3 |->
        FAdd(FAdd(FMul(m[r][1], p[1]), FMul(m[r][2], p[2])), FMul(m[r][3], p[3]))]

red_point(img) == << red_max(img), F(0), F(0) >>
green_point(img) == << F(0), green_max(img), F(0) >>
blue_point(img) == << F(0), F(0), blue_max(img) >>
white_point(img) == << red_max(img), green_max(img), blue_max(img) >>

NoXyy == [ok |-> FALSE, x |-> NaN, y |-> NaN]

\* CIEXYZCoords::try_xyy: x = X/(X+Y+Z), y = Y/(X+Y+Z); an error when the
\* three components sum to zero.
try_xyy(xyz) ==
    LET s == FAdd(FAdd(xyz[1], xyz[2]), xyz[3])
    IN  IF s.k = "num" /\ s.n = 0 THEN NoXyy
        ELSE [ok |-> TRUE, x |-> FDiv(xyz[1], s), y |-> FDiv(xyz[2], s)]

\* CIEXYZCoords::from(cam_to_xyz * point).try_xyy()
Probe(img, point) == try_xyy(MatVec(cam_to_xyz(img), point))

\* ------------------------------------------------------ the crop bounds
\* crops read as [top, left, bottom, right].
crops_size_to_bounds_left_first(crops, width, height) ==
    LET top == crops[1]
        left == crops[2]
        bottom == crops[3]
        right == crops[4]
        w == USub(USub(U(width), left), right)
        h == USub(USub(U(height), top), bottom)
    IN  [ position |-> << AsI32(left), AsI32(top) >>,
          size |-> << w.v, h.v >>,
          ovf |-> w.ovf \/ h.ovf ]

\* crops = [top, right, bottom, left]; ovf: a subtraction went below zero.
crops_size_to_bounds(crops, width, height) ==
    LET top == crops[1]
        right == crops[2]
        bottom == crops[3]
        left == crops[4]
        w == USub(USub(U(width), left), right)
        h == USub(USub(U(height), top), bottom)
    IN  [ position |-> << AsI32(left), AsI32(top) >>,
          size |-> << w.v, h.v >>,
          ovf |-> w.ovf \/ h.ovf ]

\* -------------------------------------------- what decode_file can return
\* 2x2 CFA tiles: the four Bayer layouts, a four-colour tile (RGBE, whose
\* fourth colour has index 3) and a single-colour tile.
RGGB == [width |-> 2, height |-> 2, pattern |-> << <<0, 1>>, <<1, 2>> >>]
BGGR == [width |-> 2, height |-> 2, pattern |-> << <<2, 1>>, <<1, 0>> >>]
GRBG == [width |-> 2, height |-> 2, pattern |-> << <<1, 0>>, <<2, 1>> >>]
GBRG == [width |-> 2, height |-> 2, pattern |-> << <<1, 2>>, <<0, 1>> >>]
RGBE == [width |-> 2, height |-> 2, pattern |-> << <<0, 1>>, <<2, 3>> >>]
Mono == [width |-> 1, height |-> 1, pattern |-> << <<1>> >>]

BayerPatterns == {RGGB, BGGR, GRBG, GBRG}
CfaPatterns == BayerPatterns \cup {RGBE, Mono}

\* Sample sequences of length n: every unit impulse (the scan is linear in
\* the samples), every uniform image and a ramp.
Impulse(n, p, s) == [i \in 0..(n - 1) |-> IF i = p THEN s ELSE 0]
Uniform(n, v) == [i \in 0..(n - 1) |-> v]
Ramp(n) == [i \in 0..(n - 1) |-> i % (MaxSample + 1)]

Samples(n) ==
    { Impulse(n, p, s) : p \in 0..(n - 1), s \in 1..MaxSample }
        \cup { Uniform(n, v) : v \in 0..MaxSample }
        \cup { Ramp(n) }

\* whitelevels: [u16; 4], of which the pipeline reads the first three.
WhiteLevels == { <<w, w, w, 0>> : w \in 1..MaxWhite } \cup { <<1, 2, 3, 0>> }

\* cam_to_xyz(): [[f32; 4]; 3]. The identity (with a fourth column), and
\* matrices that send one of the probes to a zero tristimulus sum.
Identity == << <<1, 0, 0, 7>>, <<0, 1, 0, 7>>, <<0, 0, 1, 7>> >>
ZeroMatrix == << <<0, 0, 0, 0>>, <<0, 0, 0, 0>>, <<0, 0, 0, 0>> >>
NoGreen == << <<1, 0, 0, 0>>, <<0, 0, 0, 0>>, <<0, 0, 1, 0>> >>
NoBlue == << <<1, 0, 0, 0>>, <<0, 1, 0, 0>>, <<0, 0, 0, 0>> >>
NoWhite == << <<1, 0, 0, 0>>, <<0, 1, 0, 0>>, <<0, 0, -2, 0>> >>
Mixing == << <<2, 1, 0, 0>>, <<1, 2, 1, 0>>, <<0, 1, 2, 0>> >>
Matrices == {Identity, ZeroMatrix, NoGreen, NoBlue, NoWhite, Mixing}

NoCrops == <<0, 0, 0, 0>>
Crops == (0..MaxCrop) \X (0..MaxCrop) \X (0..MaxCrop) \X (0..MaxCrop)

RawImage(w, h, data, cfa, wl, m, crops, kind) ==
    [ width |-> w, height |-> h, data |-> data, cfa |-> cfa, whitelevels |-> wl,
      m |-> m, crops |-> crops, kind |-> kind ]

Sizes == (1..MaxWidth) \X (1..MaxHeight)

\* Images that vary the sensor: size, samples, CFA and white levels.
ScanImages ==
    UNION { { RawImage(sz[1], sz[2], d, cfa, wl, Identity, NoCrops, "Integer") :
                d \in Samples(sz[1] * sz[2]), cfa \in CfaPatterns, wl \in WhiteLevels } :
            sz \in Sizes }

\* Images that vary the colour matrix and the white levels.
ChromaImages ==
    { RawImage(2, 2, Uniform(4, 1), RGGB, wl, m, NoCrops, "Integer") :
        wl \in WhiteLevels, m \in Matrices }

\* Images that vary the crop margins and the size.
CropImages ==
    { RawImage(sz[1], sz[2], Uniform(sz[1] * sz[2], 1), RGGB, <<1, 1, 1, 0>>,
               Identity, c, "Integer") :
        sz \in Sizes, c \in Crops }

\* Images whose samples are stored as floats (RawImageData::Float).
FloatImages ==
    { RawImage(2, 2, Uniform(4, 1), RGGB, <<1, 1, 1, 0>>, Identity, NoCrops, "Float") }

Images == ScanImages \cup ChromaImages \cup CropImages \cup FloatImages

NoImage == RawImage(0, 0, << >>, Mono, <<0, 0, 0, 0>>, ZeroMatrix, NoCrops, "none")

\* ------------------------------------------------------------------ state
VARIABLES
    pc,              \* where main() is
    fatal,           \* why the process terminated early, or "none"
    image,           \* the decoded image
    index, px, py,   \* the item (index, (y, x)) the raster enumeration yields next
    red, green, blue,\* the three output Vecs
    body,            \* the last loop body executed (neighbours, reads, queries)
    visited,         \* the (x, y) of every loop body executed, in order
    red_xyy, green_xyy, blue_xyy, white_xyy,
    display_window,  \* the IntegerBounds of the display window
    writes,          \* how many times the writer was invoked
    exr              \* the file written

vars == << pc, fatal, image, index, px, py, red, green, blue, body, visited,
           red_xyy, green_xyy, blue_xyy, white_xyy, display_window, writes, exr >>

NoBody ==
    [ index |-> 0, x |-> 0, y |-> 0, adj |-> << None, None, None, None, None, None, None, None >>,
      ovf |-> FALSE, reads |-> {}, queries |-> {}, acc |-> NoSums, fatal |-> "none",
      red |-> NaN, green |-> NaN, blue |-> NaN ]
NoWindow == [position |-> <<0, 0>>, size |-> <<0, 0>>, set |-> FALSE]
NoFile == [written |-> FALSE]

Init ==
    /\ pc = "decode"
    /\ fatal = "none"
    /\ image = NoImage
    /\ index = 0 /\ px = 0 /\ py = 0
    /\ red = << >> /\ green = << >> /\ blue = << >>
    /\ body = NoBody
    /\ visited = << >>
    /\ red_xyy = NoXyy /\ green_xyy = NoXyy /\ blue_xyy = NoXyy /\ white_xyy = NoXyy
    /\ display_window = NoWindow
    /\ writes = 0
    /\ exr = NoFile

\* A panic: the process terminates.
Abort(why) == pc' = "aborted" /\ fatal' = why

\* let image = decode_file(args.raw).unwrap();
Decode ==
    /\ pc = "decode"
    /\ \E ok \in BOOLEAN :
         IF ok
         THEN /\ \E img \in Images : image' = img
              /\ pc' = "match_data"
              /\ fatal' = fatal
         ELSE /\ Abort("decode")
              /\ image' = image
    /\ UNCHANGED << index, px, py, red, green, blue, body, visited, red_xyy,
                    green_xyy, blue_xyy, white_xyy, display_window, writes, exr >>

\* if let RawImageData::Integer(data) = image.data { ... } else { unimplemented!() }
MatchData ==
    /\ pc = "match_data"
    /\ IF image.kind = "Integer"
       THEN pc' = "scan" /\ fatal' = fatal
       ELSE Abort("unimplemented")
    /\ UNCHANGED << image, index, px, py, red, green, blue, body, visited, red_xyy,
                    green_xyy, blue_xyy, white_xyy, display_window, writes, exr >>

\* (0..height).cartesian_product(0..width).enumerate(): whether an item is left
HasNext == py < image.height /\ px < image.width

\* One iteration of the raster loop, its three pushes included.
ScanPixel ==
    /\ pc = "scan"
    /\ HasNext
    /\ \E checks \in BOOLEAN :
         LET b == LoopBody(image, index, px, py, checks)
         IN  /\ body' = b
             /\ visited' = Append(visited, <<px, py>>)
             /\ IF b.fatal # "none"
                THEN /\ Abort(b.fatal)
                     /\ UNCHANGED << index, px, py, red, green, blue >>
                ELSE /\ red' = Append(red, b.red)
                     /\ green' = Append(green, b.green)
                     /\ blue' = Append(blue, b.blue)
                     /\ index' = index + 1
                     /\ px' = IF px + 1 = image.width THEN 0 ELSE px + 1
                     /\ py' = IF px + 1 = image.width THEN py + 1 ELSE py
                     /\ UNCHANGED << pc, fatal >>
    /\ UNCHANGED << image, red_xyy, green_xyy, blue_xyy, white_xyy, display_window,
                    writes, exr >>

\* The enumeration is exhausted: the loop ends.
ScanEnd ==
    /\ pc = "scan"
    /\ ~ HasNext
    /\ pc' = "probe_red"
    /\ UNCHANGED << fatal, image, index, px, py, red, green, blue, body, visited,
                    red_xyy, green_xyy, blue_xyy, white_xyy, display_window, writes,
                    exr >>

\* The probe's error ignored (unwrap_or_default in place of unwrap).
UnwrapOrDefault(xyy, next) == pc' = next /\ fatal' = fatal

\* .try_xyy().unwrap(): where main() goes after a probe.
Unwrap(xyy, next) ==
    IF xyy.ok THEN pc' = next /\ fatal' = fatal ELSE Abort("xyy")

ProbeRed ==
    /\ pc = "probe_red"
    /\ red_xyy' = Probe(image, red_point(image))
    /\ Unwrap(red_xyy', "probe_green")
    /\ UNCHANGED << image, index, px, py, red, green, blue, body, visited,
                    green_xyy, blue_xyy, white_xyy, display_window, writes, exr >>

ProbeGreen ==
    /\ pc = "probe_green"
    /\ green_xyy' = Probe(image, green_point(image))
    /\ Unwrap(green_xyy', "probe_blue")
    /\ UNCHANGED << image, index, px, py, red, green, blue, body, visited,
                    red_xyy, blue_xyy, white_xyy, display_window, writes, exr >>

ProbeBlue ==
    /\ pc = "probe_blue"
    /\ blue_xyy' = Probe(image, blue_point(image))
    /\ Unwrap(blue_xyy', "probe_white")
    /\ UNCHANGED << image, index, px, py, red, green, blue, body, visited,
                    red_xyy, green_xyy, white_xyy, display_window, writes, exr >>

ProbeWhite ==
    /\ pc = "probe_white"
    /\ white_xyy' = Probe(image, white_point(image))
    /\ Unwrap(white_xyy', "layer")
    /\ UNCHANGED << image, index, px, py, red, green, blue, body, visited,
                    red_xyy, green_xyy, blue_xyy, display_window, writes, exr >>

\* Image::from_layer(...) and its attributes: the display window is
\* crops_size_to_bounds(image.crops, image.width, image.height).
BuildImage ==
    /\ pc = "layer"
    /\ \E checks \in BOOLEAN :
         LET b == crops_size_to_bounds(image.crops, image.width, image.height)
         IN  IF b.ovf /\ checks
             THEN Abort("crop") /\ display_window' = display_window
             ELSE /\ display_window' =
                        [position |-> b.position, size |-> b.size, set |-> TRUE]
                  /\ pc' = "write"
                  /\ fatal' = fatal
    /\ UNCHANGED << image, index, px, py, red, green, blue, body, visited,
                    red_xyy, green_xyy, blue_xyy, white_xyy, writes, exr >>

\* Vec indexing v[i]: a panic when i is out of range.
VecGet(v, i) == IF i + 1 \in DOMAIN v THEN v[i + 1] ELSE [k |-> "panic", n |-> 0, d |-> 0]

\* pixels_fn with the height as the row stride.
pixels_fn_height_stride(pos) ==
    << VecGet(red, image.height * pos.y + pos.x),
       VecGet(green, image.height * pos.y + pos.x),
       VecGet(blue, image.height * pos.y + pos.x) >>

\* The closure handed to the writer: the triple of position pos.
pixels_fn(pos) ==
    << VecGet(red, image.width * pos.y + pos.x),
       VecGet(green, image.width * pos.y + pos.x),
       VecGet(blue, image.width * pos.y + pos.x) >>

Positions == [x : 0..(image.width - 1), y : 0..(image.height - 1)]

\* exr_image.write().to_file(args.exr).unwrap(): the writer reads every
\* position of the layer through pixels_fn; it can fail on I/O.
Write ==
    /\ pc = "write"
    /\ writes' = writes + 1
    /\ \E ok \in BOOLEAN :
         IF ok
         THEN /\ exr' = [ written |-> TRUE,
                          pixels |-> [pos \in Positions |-> pixels_fn(pos)],
                          display_window |-> display_window,
                          pixel_aspect |-> 1,
                          chromaticities |->
                              [ red |-> <<red_xyy.x, red_xyy.y>>,
                                green |-> <<green_xyy.x, green_xyy.y>>,
                                blue |-> <<blue_xyy.x, blue_xyy.y>>,
                                white |-> <<white_xyy.x, white_xyy.y>> ] ]
              /\ pc' = "done"
              /\ fatal' = fatal
         ELSE /\ exr' = exr
              /\ Abort("write")
    /\ UNCHANGED << image, index, px, py, red, green, blue, body, visited,
                    red_xyy, green_xyy, blue_xyy, white_xyy, display_window >>

Next ==
    \/ Decode
    \/ MatchData
    \/ ScanPixel
    \/ ScanEnd
    \/ ProbeRed
    \/ ProbeGreen
    \/ ProbeBlue
    \/ ProbeWhite
    \/ BuildImage
    \/ Write

Spec == Init /\ [][Next]_vars

\* =================================================================== claims
\* Whether the raster loop has executed a body (`body` then describes it).
Sampled == Len(visited) > 0

\* The coordinates of the neighbours a pixel has inside a w x h image.
ExistingNeighbours(x, y, w, h) ==
    { c \in { <<x + dx, y + dy>> : dx \in {-1, 0, 1}, dy \in {-1, 0, 1} } :
        /\ c # <<x, y>>
        /\ 0 <= c[1] /\ c[1] < w
        /\ 0 <= c[2] /\ c[2] < h }

\* The slots of adjacent_pixels that are Some, and the coordinates they carry.
PresentSlots == { i \in 1..8 : body.adj[i].some }
SampledCoords == { << body.adj[i].x.v, body.adj[i].y.v >> : i \in PresentSlots }

\* The sampler returns exactly the in-bounds neighbours, each read at the
\* flat index of its own coordinate.
ExactNeighbours ==
    /\ SampledCoords = ExistingNeighbours(body.x, body.y, image.width, image.height)
    /\ \A i \in PresentSlots :
          body.adj[i].idx.v = body.adj[i].y.v * image.width + body.adj[i].x.v

\* An interior pixel gets all eight neighbours.
InteriorGetsEight ==
    ( /\ 0 < body.x /\ body.x < image.width - 1
      /\ 0 < body.y /\ body.y < image.height - 1 )
        => PresentSlots = 1..8

\* Pixel (0,0) gets exactly E, S and SE (slots Right, BottomMiddle, BottomRight).
CornerGetsThree ==
    /\ PresentSlots = {5, 7, 8}
    /\ SampledCoords = { <<1, 0>>, <<0, 1>>, <<1, 1>> }

\* C2 as stated: for every pixel of every image the sampler returns exactly
\* the in-bounds neighbours among the eight, each sample read at the flat
\* index of its paired coordinate; pixel (0,0) gets exactly E, S, SE and an
\* interior pixel exactly eight.
C2_Stated ==
    Sampled =>
        /\ ExactNeighbours
        /\ InteriorGetsEight
        /\ (body.x = 0 /\ body.y = 0) => CornerGetsThree

\* C2 (amended): as C2, with pixel (0,0) getting exactly E, S, SE in every
\* image at least two pixels wide and two pixels high.
C2_ExactNeighbourSet ==
    Sampled =>
        /\ ExactNeighbours
        /\ InteriorGetsEight
        /\ (body.x = 0 /\ body.y = 0 /\ image.width >= 2 /\ image.height >= 2)
              => CornerGetsThree

\* The corner pixel of an image at least 2x2 was sampled and got E, S, SE.
C2_Witness ==
    /\ Sampled
    /\ body.x = 0 /\ body.y = 0
    /\ image.width >= 2 /\ image.height >= 2
    /\ CornerGetsThree

\* No coordinate is returned twice, and none lies outside the image.
NoDuplicateInBounds ==
    /\ Cardinality(SampledCoords) = Cardinality(PresentSlots)
    /\ \A c \in SampledCoords :
          0 <= c[1] /\ c[1] < image.width /\ 0 <= c[2] /\ c[2] < image.height

\* C3 as stated: for every valid coordinate of every image size the sampler
\* returns between 3 and 8 neighbours, no coordinate twice, none out of bounds.
C3_Stated ==
    Sampled =>
        /\ 3 <= Cardinality(PresentSlots) /\ Cardinality(PresentSlots) <= 8
        /\ NoDuplicateInBounds

\* C3 (amended): the sampler returns at most 8 neighbours, at least 3 when the
\* image is at least two pixels wide and two pixels high (a 1xH or Wx1 image
\* gives 0, 1 or 2), no coordinate twice and none out of bounds.
C3_NeighbourCount ==
    Sampled =>
        /\ Cardinality(PresentSlots) <= 8
        /\ (image.width >= 2 /\ image.height >= 2) => 3 <= Cardinality(PresentSlots)
        /\ NoDuplicateInBounds

\* An interior pixel was sampled with eight distinct in-bounds neighbours.
C3_Witness ==
    /\ Sampled
    /\ 0 < body.x /\ body.x < image.width - 1
    /\ 0 < body.y /\ body.y < image.height - 1
    /\ Cardinality(SampledCoords) = 8

\* C10: in every loop body, every index the sample sequence is read at (the
\* pixel's own, y*W + x, and each guarded neighbour index) lies in [0, W*H),
\* no usize subtraction goes below zero, and the CFA oracle is asked only
\* about in-bounds (row, column) pairs.
C10_IndicesInBounds ==
    Sampled =>
        /\ body.index = body.y * image.width + body.x
        /\ body.reads \subseteq 0..(image.width * image.height - 1)
        /\ ~ body.ovf
        /\ body.fatal # "bounds"
        /\ \A q \in body.queries :
              0 <= q[1] /\ q[1] < image.height /\ 0 <= q[2] /\ q[2] < image.width

\* The last pixel of an image at least 2x2 was processed: its own sample and
\* its three neighbours (NW, N, W) were read, all below W*H.
C10_Witness ==
    /\ Sampled
    /\ image.width >= 2 /\ image.height >= 2
    /\ body.x = image.width - 1 /\ body.y = image.height - 1
    /\ Cardinality(body.reads) = 4
    /\ body.fatal = "none"

\* ------------------------------------------------ the reconstructed grid
\* The sum of the raw samples at a set of coordinates.
RECURSIVE SampleSum(_, _)
SampleSum(img, S) ==
    IF S = {} THEN 0
    ELSE LET c == CHOOSE e \in S : TRUE
         IN  img.data[c[2] * img.width + c[1]] + SampleSum(img, S \ {c})

\* out is the f32 quotient num / den of two non-negative integers.
IsQuotient(out, num, den) ==
    IF den = 0 THEN out = (IF num = 0 THEN NaN ELSE Inf)
    ELSE out.k = "num" /\ out.d > 0 /\ out.n * den = num * out.d

\* The neighbours of (x, y) whose filter colour is k.
NeighboursOfColour(img, x, y, k) ==
    { c \in ExistingNeighbours(x, y, img.width, img.height) :
        color_at(img.cfa, c[2], c[1]) = k }

\* rgb is the triple the spec gives pixel (x, y): the native channel is the
\* own sample over its white level, every other channel the mean of the
\* neighbours of that colour over that colour's white level (0/0 when the
\* pixel has no such neighbour).
IsReconstruction(img, x, y, rgb) ==
    \A k \in 0..2 :
        IF k = color_at(img.cfa, y, x)
        THEN IsQuotient(rgb[k + 1], img.data[y * img.width + x], img.whitelevels[k + 1])
        ELSE LET N == NeighboursOfColour(img, x, y, k)
             IN  IF N = {} THEN rgb[k + 1] = NaN
                 ELSE IsQuotient(rgb[k + 1], SampleSum(img, N),
                                 Cardinality(N) * img.whitelevels[k + 1])

\* C1: for every pixel whose loop body completes, the channel of the pixel's
\* own filter colour is its own raw sample over that colour's white level,
\* and each other channel is (sum of the existing neighbours of that colour)
\* / (their number) / (that colour's white level).
C1_DemosaicNormalize ==
    (Sampled /\ body.fatal = "none") =>
        /\ color_at(image.cfa, body.y, body.x) \in 0..2
        /\ IsReconstruction(image, body.x, body.y, << body.red, body.green, body.blue >>)

\* An interior red pixel was reconstructed with three different white levels
\* and non-zero red, green and blue.
C1_Witness ==
    /\ Sampled /\ body.fatal = "none"
    /\ 0 < body.x /\ body.x < image.width - 1
    /\ 0 < body.y /\ body.y < image.height - 1
    /\ color_at(image.cfa, body.y, body.x) = 0
    /\ image.whitelevels = <<1, 2, 3, 0>>
    /\ body.red.k = "num" /\ body.red.n > 0
    /\ body.green.k = "num" /\ body.green.n > 0
    /\ body.blue.k = "num" /\ body.blue.n > 0

\* Where main() is once the raster loop has ended.
AfterScan ==
    \/ pc \in {"probe_red", "probe_green", "probe_blue", "probe_white", "layer",
               "write", "done"}
    \/ pc = "aborted" /\ fatal \in {"xyy", "crop", "write"}

\* C4: the scan visits the pixels in raster order, each once, and pushes one
\* value per pixel onto each of red, green and blue; after the scan each has
\* length W*H; entry i is the reconstruction of pixel (i mod W, i div W); and
\* the lookup the writer uses returns, for (x, y), that pixel's own triple.
C4_RasterScan ==
    /\ Len(red) = index /\ Len(green) = index /\ Len(blue) = index
    /\ Len(visited) = IF pc = "aborted" /\ fatal \in {"cfa", "bounds"}
                      THEN index + 1 ELSE index
    /\ \A i \in 1..Len(visited) :
          visited[i] = << (i - 1) % image.width, (i - 1) \div image.width >>
    /\ AfterScan => index = image.width * image.height
    /\ \A i \in 1..Len(red) :
          IsReconstruction(image, (i - 1) % image.width, (i - 1) \div image.width,
                           << red[i], green[i], blue[i] >>)
    /\ exr.written =>
          /\ DOMAIN exr.pixels = Positions
          /\ \A pos \in Positions :
                IsReconstruction(image, pos.x, pos.y, exr.pixels[pos])

\* A 3x2 image whose samples are not all equal was written.
C4_Witness ==
    /\ exr.written
    /\ image.width = 3 /\ image.height = 2
    /\ \E i \in DOMAIN image.data : image.data[i] # image.data[0]
    /\ Len(red) = 6

\* An RGGB sensor at least 2x2 with one white level and one raw value.
UniformBayer ==
    /\ image.cfa = RGGB
    /\ image.width >= 2 /\ image.height >= 2
    /\ image.whitelevels[1] = image.whitelevels[2]
    /\ image.whitelevels[2] = image.whitelevels[3]
    /\ \A i \in DOMAIN image.data : image.data[i] = image.data[0]

\* C7: on an RGGB sensor at least 2x2 with the same white level w on the
\* three channels and the same raw value v at every pixel, every pixel of the
\* reconstructed grid, corners and edges included, has all channels v/w.
C7_UniformImage ==
    UniformBayer =>
        /\ \A i \in 1..Len(red) :
              /\ IsQuotient(red[i], image.data[0], image.whitelevels[1])
              /\ green[i] = red[i]
              /\ blue[i] = red[i]
        /\ exr.written =>
              \A pos \in Positions :
                 /\ IsQuotient(exr.pixels[pos][1], image.data[0], image.whitelevels[1])
                 /\ exr.pixels[pos][2] = exr.pixels[pos][1]
                 /\ exr.pixels[pos][3] = exr.pixels[pos][1]

\* A uniform 3x3 RGGB image with a non-zero raw value was written.
C7_Witness ==
    /\ UniformBayer
    /\ pc = "done" /\ exr.written
    /\ image.width = 3 /\ image.height = 3
    /\ image.data[0] > 0
    /\ image.whitelevels[1] > 1

\* The loop body completed for a pixel that has no neighbour of one of its
\* two non-native colours.
NeededColourMissing ==
    /\ Sampled /\ body.fatal = "none"
    /\ \E k \in 0..2 :
          /\ k # color_at(image.cfa, body.y, body.x)
          /\ << body.acc.red_count, body.acc.green_count, body.acc.blue_count >>[k + 1] = 0

\* C8 as stated: with a 2x2 Bayer pattern, a pixel with no neighbour of a
\* colour it needs occurs only in 1-pixel-wide images.
C8_Stated ==
    (image.cfa \in BayerPatterns /\ NeededColourMissing) => image.width = 1

\* C8 (amended): with a 2x2 Bayer pattern, a pixel with no neighbour of a
\* colour it needs occurs only in images 1 pixel wide or 1 pixel high; in
\* every image at least 2x2 each pixel has a neighbour of each of its two
\* non-native colours.
C8_NeededColourPresent ==
    (image.cfa \in BayerPatterns /\ NeededColourMissing) =>
        (image.width = 1 \/ image.height = 1)

\* A pixel of a Bayer image one pixel high and at least two wide has no
\* neighbour of a colour it needs, and the channel pushed for it is 0/0.
C8_Witness ==
    /\ image.cfa \in BayerPatterns
    /\ NeededColourMissing
    /\ image.height = 1 /\ image.width >= 2
    /\ NaN \in {body.red, body.green, body.blue}

\* ------------------------------------------------------ the display window
\* The display window has been computed, or computing it panicked.
CropExecuted == display_window.set \/ (pc = "aborted" /\ fatal = "crop")

\* The rectangle lies inside the sensor rectangle [0,W) x [0,H).
InsideSensor(w) ==
    /\ 0 <= w.position[1] /\ 0 <= w.position[2]
    /\ w.position[1] + w.size[1] <= image.width
    /\ w.position[2] + w.size[2] <= image.height

\* The window crops_size_to_bounds is said to return for margins
\* (t, r, b, l) = image.crops: position (l, t), size (W - l - r, H - t - b).
WindowAsStated ==
    /\ display_window.set
    /\ display_window.position = << image.crops[4], image.crops[1] >>
    /\ display_window.size = << image.width - image.crops[4] - image.crops[2],
                                image.height - image.crops[1] - image.crops[3] >>

\* C5 as stated: for margins (t, r, b, l) and dimensions (W, H) the function
\* returns position (l, t) and size (W - l - r, H - t - b); the rectangle
\* lies inside the sensor rectangle whenever l + r < W and t + b < H.
C5_Stated ==
    CropExecuted =>
        /\ WindowAsStated
        /\ ( /\ image.crops[4] + image.crops[2] < image.width
             /\ image.crops[1] + image.crops[3] < image.height )
              => InsideSensor(display_window)

\* The margins leave a non-negative size and the position fits an i32.
MarginsFit ==
    /\ image.crops[4] + image.crops[2] <= image.width
    /\ image.crops[1] + image.crops[3] <= image.height
    /\ image.crops[4] <= I32Max
    /\ image.crops[1] <= I32Max

\* The size the subtractions leave when they wrap modulo the word.
WrappedSize ==
    << (image.width - image.crops[4] - image.crops[2] + UsizeMod) % UsizeMod,
       (image.height - image.crops[1] - image.crops[3] + UsizeMod) % UsizeMod >>

\* C5 (amended): for margins (t, r, b, l) and dimensions (W, H) with
\* l + r <= W, t + b <= H and l, t within i32, the function returns position
\* (l, t) and size (W - l - r, H - t - b); margins (0,0,0,0) give position
\* (0,0) and size (W, H); and the rectangle lies inside the sensor rectangle
\* whenever moreover l + r < W and t + b < H. With l + r > W or t + b > H
\* the function panics (overflow checks) or returns the size wrapped modulo
\* the word.
C5_CropBounds ==
    /\ (CropExecuted /\ MarginsFit) =>
          /\ WindowAsStated
          /\ image.crops = <<0, 0, 0, 0>> =>
                /\ display_window.position = <<0, 0>>
                /\ display_window.size = << image.width, image.height >>
          /\ ( /\ image.crops[4] + image.crops[2] < image.width
               /\ image.crops[1] + image.crops[3] < image.height )
                => InsideSensor(display_window)
    /\ ( /\ CropExecuted
         /\ \/ image.crops[4] + image.crops[2] > image.width
            \/ image.crops[1] + image.crops[3] > image.height )
          => \/ pc = "aborted" /\ fatal = "crop" /\ ~ display_window.set
             \/ /\ display_window.set
                /\ display_window.size = WrappedSize
                /\ display_window.size # << image.width - image.crops[4] - image.crops[2],
                                            image.height - image.crops[1] - image.crops[3] >>

\* Margins (1,1,1,1) on a 3x3 image gave position (1,1) and size (1,1).
C5_Witness ==
    /\ display_window.set
    /\ image.crops = <<1, 1, 1, 1>>
    /\ image.width = 3 /\ image.height = 3
    /\ display_window.position = <<1, 1>>
    /\ display_window.size = <<1, 1>>

\* ------------------------------------------------------------ the pipeline
\* C6: the writer is invoked at most once, and only after the decode, the
\* scan of all pixels and the four chromaticity conversions have succeeded;
\* after a decode failure, non-integer samples, a CFA colour outside {0,1,2}
\* at an in-bounds coordinate or a zero-luminance probe the run has ended,
\* nothing runs again, and the writer was never invoked.
C6_WriterOnlyAfterSuccess ==
    /\ writes <= 1
    /\ writes = 1 =>
          /\ image \in Images
          /\ image.kind = "Integer"
          /\ Len(red) = image.width * image.height
          /\ Len(green) = Len(red) /\ Len(blue) = Len(red)
          /\ \A x \in 0..(image.width - 1), y \in 0..(image.height - 1) :
                color_at(image.cfa, y, x) \in 0..2
          /\ red_xyy.ok /\ green_xyy.ok /\ blue_xyy.ok /\ white_xyy.ok
    /\ fatal \in {"decode", "unimplemented", "cfa", "xyy"} =>
          /\ pc = "aborted"
          /\ writes = 0
          /\ ~ exr.written
    /\ pc = "aborted" => ~ ENABLED Next
    /\ exr.written => (writes = 1 /\ pc = "done")

\* The whole grid was reconstructed, a probe had zero luminance, and the run
\* ended without the writer having been invoked.
C6_Witness ==
    /\ pc = "aborted" /\ fatal = "xyy"
    /\ Len(red) = image.width * image.height /\ Len(red) > 0
    /\ red_xyy.ok /\ ~ white_xyy.ok
    /\ writes = 0

\* ------------------------------------------------------- the white point
\* The colour matrix in use (the first three columns) is the identity.
IdentityMatrix ==
    \A r \in 1..3, c \in 1..3 : image.m[r][c] = (IF r = c THEN 1 ELSE 0)

OneThird(v) == v.k = "num" /\ 3 * v.n = v.d

WhitePointFollowsWhiteLevels ==
    (IdentityMatrix /\ white_xyy.ok) =>
        LET s == image.whitelevels[1] + image.whitelevels[2] + image.whitelevels[3]
        IN  /\ IsQuotient(white_xyy.x, image.whitelevels[1], s)
            /\ IsQuotient(white_xyy.y, image.whitelevels[2], s)
            /\ ( /\ image.whitelevels[1] = image.whitelevels[2]
                 /\ image.whitelevels[2] = image.whitelevels[3] )
                  => (OneThird(white_xyy.x) /\ OneThird(white_xyy.y))

====
